---- MODULE Spec2Model ----
(***************************************************************************)
(* Model of benchmark.js: the load-generation harness (makeRequest,        *)
(* benchmarkRoute, runBenchmarks and the process entry point).             *)
(*                                                                         *)
(* One action is one turn of the event loop: an event handler of a request *)
(* together with the promise reactions it triggers (.then / .catch of      *)
(* lines 140-145), or one resumption of the async functions up to their    *)
(* next await.                                                             *)
(***************************************************************************)
EXTENDS Integers, Sequences, FiniteSets

\* ------------------------------------------------------------------ bounds
MaxWarmup == 2
MaxCount == 3
MaxLimit == 2
NumScenarios == 2
MaxSamples == 100

\* Latencies (result.time) a successful request may report.
Latencies == {1, 2}

\* --------------------------------------------------------- configuration
WARMUP_REQUESTS == MaxWarmup

\* The six benchmarkRoute calls of runBenchmarks, in registration order.
AllScenarios ==
  << [name |-> "Simple Route", path |-> "/simple"],
     [name |-> "JSON Route (Header Cache)", path |-> "/json"],
     [name |-> "Parameterized Route", path |-> "/users/123"],
     [name |-> "Query String Route (LRU Cache)", path |-> "/search?q=test&limit=10&offset=0"],
     [name |-> "Middleware Chain (5 middleware)", path |-> "/middleware"],
     [name |-> "Static Route (Fast Path)", path |-> "/static"] >>

Scenarios == SubSeq(AllScenarios, 1, NumScenarios)

VARIABLES
  pc,                   \* position of runBenchmarks / benchmarkRoute
  server,               \* "none" | "listening" | "failed" | "closed"
  BENCHMARK_REQUESTS,   \* count passed to every benchmarkRoute call
  CONCURRENT_REQUESTS,  \* batchSize
  scenario,             \* index of the benchmarkRoute call in progress
  i,                    \* warmup loop index
  batch,                \* batch loop index
  requests,             \* requests of the loop in progress: the warmup loop's, then
                        \* the measurement requests of the current benchmarkRoute call
  times,                \* latency samples
  errors,               \* error counter
  benchmarkResults,     \* results collected by runBenchmarks
  summary,              \* rows of the summary table written to stdout
  stderr,               \* lines written by console.error calls of the program
  err,                  \* fault raised so far: "none" | "port" | "scenario"
  exitCode,             \* process exit status, -1 while running
  started,              \* names logged by `Benchmarking ${name}...`, in order
  dispatched,           \* makeRequest calls made by the current benchmarkRoute call
  timer                 \* "unset" | "started" (startTime taken) | "stopped" (endTime taken)

vars == << pc, server, BENCHMARK_REQUESTS, CONCURRENT_REQUESTS, scenario, i, batch,
           requests, times, errors, benchmarkResults, summary, stderr, err, exitCode,
           started, dispatched, timer >>

\* ---------------------------------------------------------------- helpers
Min(a, b) == IF a < b THEN a ELSE b

\* times.sort((a, b) => a - b): the ascending arrangement of the samples, whose
\* k-th element is the value v with fewer than k samples below it and at least
\* k samples not above it.
SortAsc(s) ==
  [k \in 1..Len(s) |->
     CHOOSE v \in { s[j] : j \in 1..Len(s) } :
       /\ Cardinality({ j \in 1..Len(s) : s[j] < v }) < k
       /\ Cardinality({ j \in 1..Len(s) : s[j] <= v }) >= k]

RECURSIVE Sum(_)
Sum(s) == IF s = << >> THEN 0 ELSE Head(s) + Sum(Tail(s))

\* Mutant of Batches: Math.floor in place of Math.ceil.
BatchesFloor(count, batchSize) == count \div batchSize

\* Math.ceil(count / batchSize)
Batches(count, batchSize) == (count + batchSize - 1) \div batchSize

\* Mutant of BatchCount: the remaining count without Math.min.
BatchCountNoMin(batchSize, count, b) == count - b * batchSize

\* Math.min(batchSize, count - batch * batchSize)
BatchCount(batchSize, count, b) == Min(batchSize, count - b * batchSize)

\* Mutant of PercentileIndex: the rank ceil(n * p) - 1 in place of floor(n * p).
PercentileIndexCeil(n, pct) == IF n * pct = 0 THEN 0 ELSE ((n * pct + 99) \div 100) - 1

\* Math.floor(times.length * p), p = pct / 100
PercentileIndex(n, pct) == (n * pct) \div 100

\* --------------------------------------------------------------- requests
\* makeRequest: a fresh request with its promise pending. req is the state of the
\* connection: "open" (sent, no response yet), "responding" (the response callback
\* ran, 'end' not yet emitted), "destroyed" (req.destroy() called, its 'error'
\* event not yet emitted), "aborted" (destroyed, that event emitted), "closed"
\* (ended or failed otherwise); no event follows "aborted" or "closed".
makeRequest(phase, b) ==
  [phase |-> phase, batch |-> b, promise |-> "pending", req |-> "open"]

\* resolve(...) and reject(...): a promise settles once, later calls do nothing.
Resolve(r) == IF r.promise = "pending" THEN [r EXCEPT !.promise = "fulfilled"] ELSE r
Reject(r) == IF r.promise = "pending" THEN [r EXCEPT !.promise = "rejected"] ELSE r

\* .then(result => times.push(result.time)) of a measurement request
OnFulfilled(ts, t) == Append(ts, t)

\* Mutant of OnRejected: a catch handler that swallows the error uncounted.
OnRejectedUncounted(e) == e

\* .catch(err => errors++) of a measurement request
OnRejected(e) == e + 1

\* Mutant of Awaited: makeRequest called without await.
NotAwaited(r) == TRUE

\* await makeRequest(...) in the warmup loop: resumes once the promise settled,
\* the try/catch swallowing a rejection.
Awaited(r) == r.promise # "pending"

\* Mutant of PromiseAll: Promise.race, which ends the wait at the first settlement.
PromiseRace(ps) == \E k \in DOMAIN ps : ps[k].promise # "pending"

\* Mutant of PromiseAll: the promises passed without their .catch, so that the
\* first rejection ends the wait.
PromiseAllFailFast(ps) ==
  \/ \A k \in DOMAIN ps : ps[k].promise # "pending"
  \/ \E k \in DOMAIN ps : ps[k].promise = "rejected"

\* await Promise.all(promises): every promise is wrapped by .catch, so none of them
\* rejects and Promise.all resolves once all have settled.
PromiseAll(ps) == \A k \in DOMAIN ps : ps[k].promise # "pending"

Bench == { k \in DOMAIN requests : requests[k].phase = "bench" }
Warm == { k \in DOMAIN requests : requests[k].phase = "warmup" }
CurrentBatch == SelectSeq(requests, LAMBDA r : r.phase = "bench" /\ r.batch = batch)

\* ------------------------------------------------------------------- Init
InitCommon ==
  /\ pc = "start"
  /\ server = "none"
  /\ CONCURRENT_REQUESTS \in 1..MaxLimit
  /\ scenario = 0
  /\ i = 0
  /\ batch = 0
  /\ requests = << >>
  /\ times = << >>
  /\ errors = 0
  /\ benchmarkResults = << >>
  /\ summary = << >>
  /\ stderr = << >>
  /\ err = "none"
  /\ exitCode = -1
  /\ started = << >>
  /\ dispatched = 0
  /\ timer = "unset"

Init == InitCommon /\ BENCHMARK_REQUESTS \in 1..MaxCount

\* ---------------------------------------------------------- runBenchmarks
\* const server = app.listen(0): the bind may fail, leaving the server without handle.
Listen ==
  /\ pc = "start"
  /\ \E ok \in BOOLEAN : server' = IF ok THEN "listening" ELSE "failed"
  /\ pc' = "port"
  /\ UNCHANGED << BENCHMARK_REQUESTS, CONCURRENT_REQUESTS, scenario, i, batch, requests,
                  times, errors, benchmarkResults, summary, stderr, err, exitCode >>
  /\ UNCHANGED << started, dispatched, timer >>

\* Entry of benchmarkRoute: fresh times and errors, warmup loop at i = 0.
EnterRoute(s) ==
  /\ scenario' = s
  /\ i' = 0
  /\ batch' = 0
  /\ requests' = << >>
  /\ times' = << >>
  /\ errors' = 0
  /\ started' = Append(started, Scenarios[s].name)
  /\ dispatched' = 0
  /\ timer' = "unset"
  /\ pc' = "warmup"

\* const port = server.address().port: address() is null when the bind failed,
\* and the TypeError is raised outside the try block.
ReadPort ==
  /\ pc = "port"
  /\ IF server = "listening"
       THEN /\ EnterRoute(1)
            /\ UNCHANGED err
       ELSE /\ pc' = "rejected"
            /\ err' = "port"
            /\ UNCHANGED << scenario, i, batch, requests, times, errors, started,
                            dispatched, timer >>
  /\ UNCHANGED << server, BENCHMARK_REQUESTS, CONCURRENT_REQUESTS, benchmarkResults,
                  summary, stderr, exitCode >>

\* --------------------------------------------------------- benchmarkRoute
\* Mutant of WarmupStep: a failed warmup request is issued again.
WarmupRetry(n, r) == IF r.promise = "rejected" THEN n ELSE n + 1

\* i++ of the warmup loop, whatever the outcome of the awaited request r.
WarmupStep(n, r) == n + 1

\* const startTime = performance.now()
StartTimer(t) == "started"

\* const endTime = performance.now()
StopTimer(t) == "stopped"

WarmupDispatch ==
  /\ pc = "warmup"
  /\ i < WARMUP_REQUESTS
  /\ requests' = Append(requests, makeRequest("warmup", 0))
  /\ pc' = "warmup_await"
  /\ UNCHANGED << server, BENCHMARK_REQUESTS, CONCURRENT_REQUESTS, scenario, i, batch,
                  times, errors, benchmarkResults, summary, stderr, err, exitCode >>
  /\ dispatched' = dispatched + 1
  /\ UNCHANGED << started, timer >>

WarmupResume ==
  /\ pc = "warmup_await"
  /\ Awaited(requests[Len(requests)])
  /\ i' = WarmupStep(i, requests[Len(requests)])
  /\ pc' = "warmup"
  /\ UNCHANGED << server, BENCHMARK_REQUESTS, CONCURRENT_REQUESTS, scenario, batch,
                  requests, times, errors, benchmarkResults, summary, stderr, err,
                  exitCode >>
  /\ UNCHANGED << started, dispatched, timer >>

\* End of the warmup loop: its requests, all awaited, are dropped with their outcomes.
WarmupDone ==
  /\ pc = "warmup"
  /\ ~(i < WARMUP_REQUESTS)
  /\ batch' = 0
  /\ requests' = << >>
  /\ pc' = "batch"
  /\ UNCHANGED << server, BENCHMARK_REQUESTS, CONCURRENT_REQUESTS, scenario, i,
                  times, errors, benchmarkResults, summary, stderr, err, exitCode >>
  /\ timer' = StartTimer(timer)
  /\ UNCHANGED << started, dispatched >>

\* One iteration of the batch loop up to its await: the inner for loop dispatches
\* batchCount requests synchronously.
BatchDispatch ==
  /\ pc = "batch"
  /\ batch < Batches(BENCHMARK_REQUESTS, CONCURRENT_REQUESTS)
  /\ LET batchCount == BatchCount(CONCURRENT_REQUESTS, BENCHMARK_REQUESTS, batch)
     IN requests' = requests \o [k \in 1..batchCount |-> makeRequest("bench", batch)]
  /\ pc' = "batch_await"
  /\ UNCHANGED << server, BENCHMARK_REQUESTS, CONCURRENT_REQUESTS, scenario, i, batch,
                  times, errors, benchmarkResults, summary, stderr, err, exitCode >>
  /\ dispatched' = dispatched + BatchCount(CONCURRENT_REQUESTS, BENCHMARK_REQUESTS, batch)
  /\ UNCHANGED << started, timer >>

BatchResume ==
  /\ pc = "batch_await"
  /\ PromiseAll(CurrentBatch)
  /\ batch' = batch + 1
  /\ pc' = "batch"
  /\ UNCHANGED << server, BENCHMARK_REQUESTS, CONCURRENT_REQUESTS, scenario, i, requests,
                  times, errors, benchmarkResults, summary, stderr, err, exitCode >>
  /\ UNCHANGED << started, dispatched, timer >>

BatchesDone ==
  /\ pc = "batch"
  /\ ~(batch < Batches(BENCHMARK_REQUESTS, CONCURRENT_REQUESTS))
  /\ pc' = "stats"
  /\ UNCHANGED << server, BENCHMARK_REQUESTS, CONCURRENT_REQUESTS, scenario, i, batch,
                  requests, times, errors, benchmarkResults, summary, stderr, err,
                  exitCode >>
  /\ timer' = StopTimer(timer)
  /\ UNCHANGED << started, dispatched >>

\* The returned object; avg is kept as the pair sum / length.
Result(name, count, sorted, e) ==
  LET n == Len(sorted) IN
  [ name |-> name,
    count |-> count,
    latency |-> [ avg |-> << Sum(sorted), n >>,
                  min |-> sorted[1],
                  max |-> sorted[n],
                  p50 |-> sorted[PercentileIndex(n, 50) + 1],
                  p95 |-> sorted[PercentileIndex(n, 95) + 1],
                  p99 |-> sorted[PercentileIndex(n, 99) + 1] ],
    errors |-> e ]

\* Mutant of Thrown: each benchmarkRoute call guarded on its own, the fault
\* swallowed and the try block continued.
ThrownSwallowed == "pushed"

\* Where a fault raised inside the try block of runBenchmarks takes control: its
\* catch block.
Thrown == "catch"

\* Mutant of PushResult: unshift in place of push.
UnshiftResult(rs, r) == << r >> \o rs

\* benchmarkResults.push(await benchmarkRoute(...))
PushResult(rs, r) == Append(rs, r)

\* Statistics, report and return of benchmarkRoute, and the push of the returned
\* object in runBenchmarks; the promises go out of scope, and only requests whose
\* connection can still emit an event are kept. With no sample, times[0] is
\* undefined and min.toFixed(2) raises a TypeError, caught by the catch block of
\* runBenchmarks.
Statistics ==
  /\ pc = "stats"
  /\ times' = SortAsc(times)
  /\ IF Len(times) = 0
       THEN /\ err' = "scenario"
            /\ pc' = Thrown
            /\ UNCHANGED benchmarkResults
       ELSE /\ benchmarkResults' =
                 PushResult(benchmarkResults,
                            Result(Scenarios[scenario].name, BENCHMARK_REQUESTS,
                                   SortAsc(times), errors))
            /\ pc' = "pushed"
            /\ UNCHANGED err
  /\ requests' = SelectSeq(requests, LAMBDA r : r.req \notin {"closed", "aborted"})
  /\ UNCHANGED << server, BENCHMARK_REQUESTS, CONCURRENT_REQUESTS, scenario, i, batch,
                  errors, summary, stderr, exitCode >>
  /\ UNCHANGED << started, dispatched, timer >>

\* The next benchmarkRoute call of the try block.
NextRoute ==
  /\ pc = "pushed"
  /\ scenario < Len(Scenarios)
  /\ EnterRoute(scenario + 1)
  /\ UNCHANGED << server, BENCHMARK_REQUESTS, CONCURRENT_REQUESTS, benchmarkResults,
                  summary, stderr, err, exitCode >>

\* benchmarkResults.forEach(...): one row per collected result, in array order.
SummaryRows(rs) == [k \in DOMAIN rs |-> rs[k].name]

PrintSummary ==
  /\ pc = "pushed"
  /\ ~(scenario < Len(Scenarios))
  /\ summary' = SummaryRows(benchmarkResults)
  /\ pc' = "finally"
  /\ UNCHANGED << server, BENCHMARK_REQUESTS, CONCURRENT_REQUESTS, scenario, i, batch,
                  requests, times, errors, benchmarkResults, stderr, err, exitCode >>
  /\ UNCHANGED << started, dispatched, timer >>

\* catch (err) { console.error('\nBenchmark error:', err); }
CatchError ==
  /\ pc = "catch"
  /\ stderr' = Append(stderr, "Benchmark error")
  /\ pc' = "finally"
  /\ UNCHANGED << server, BENCHMARK_REQUESTS, CONCURRENT_REQUESTS, scenario, i, batch,
                  requests, times, errors, benchmarkResults, summary, err, exitCode >>
  /\ UNCHANGED << started, dispatched, timer >>

\* server.close()
ServerClose(srv) == "closed"

\* finally { server.close(); ... }: runBenchmarks' promise is fulfilled.
Finally ==
  /\ pc = "finally"
  /\ server' = ServerClose(server)
  /\ pc' = "resolved"
  /\ UNCHANGED << BENCHMARK_REQUESTS, CONCURRENT_REQUESTS, scenario, i, batch, requests,
                  times, errors, benchmarkResults, summary, stderr, err, exitCode >>
  /\ UNCHANGED << started, dispatched, timer >>

\* ------------------------------------------------------------ entry point
\* The server of app.listen(0) has no 'error' listener. A failed bind queues the
\* server's 'error' event with process.nextTick; the tick queue runs before the
\* promise reactions, so the event is raised as an uncaught exception and ends the
\* process with status 1 before the .catch of the entry point can run: neither its
\* console.error('Fatal error:', err) nor its process.exit(1) is executed. The
\* rejection of line 193 is the only one runBenchmarks can produce, so that handler
\* has no action of its own.
UnhandledServerError ==
  /\ pc = "rejected"
  /\ server = "failed"
  /\ exitCode' = 1
  /\ pc' = "exited"
  /\ UNCHANGED << server, BENCHMARK_REQUESTS, CONCURRENT_REQUESTS, scenario, i, batch,
                  requests, times, errors, benchmarkResults, summary, stderr, err >>
  /\ UNCHANGED << started, dispatched, timer >>

\* The promise was fulfilled: nothing calls process.exit, and the process ends
\* with status 0 once the event loop is empty.
NormalExit ==
  /\ pc = "resolved"
  /\ exitCode' = 0
  /\ pc' = "exited"
  /\ UNCHANGED << server, BENCHMARK_REQUESTS, CONCURRENT_REQUESTS, scenario, i, batch,
                  requests, times, errors, benchmarkResults, summary, stderr, err >>
  /\ UNCHANGED << started, dispatched, timer >>

\* --------------------------------------------------- events of one request
\* Mutant of Settle: the handlers run on every resolve / reject call, as plain
\* callbacks would, not once per promise.
SettleEveryCall(k, to, t) ==
  LET r == requests[k]
      fires == requests'[k].promise = to /\ r.phase = "bench"
  IN /\ times' = IF fires /\ to = "fulfilled" THEN OnFulfilled(times, t) ELSE times
     /\ errors' = IF fires /\ to = "rejected" THEN OnRejected(errors) ELSE errors

\* Mutant of Settle: the measurement handlers attached to warmup requests too.
SettleCountsWarmup(k, to, t) ==
  LET r == requests[k]
      fires == r.promise = "pending" /\ requests'[k].promise = to
  IN /\ times' = IF fires /\ to = "fulfilled" THEN OnFulfilled(times, t) ELSE times
     /\ errors' = IF fires /\ to = "rejected" THEN OnRejected(errors) ELSE errors

\* Promise reactions of request k when this turn settles its promise as `to`: the
\* measurement handlers of lines 140-145; a warmup outcome is discarded.
Settle(k, to, t) ==
  LET r == requests[k]
      fires == r.promise = "pending" /\ requests'[k].promise = to /\ r.phase = "bench"
  IN /\ times' = IF fires /\ to = "fulfilled" THEN OnFulfilled(times, t) ELSE times
     /\ errors' = IF fires /\ to = "rejected" THEN OnRejected(errors) ELSE errors

\* The response callback of http.get: the 'data' and 'end' listeners are attached.
ResponseStart(k) ==
  /\ requests[k].req = "open"
  /\ requests' = [requests EXCEPT ![k].req = "responding"]
  /\ UNCHANGED << pc, server, BENCHMARK_REQUESTS, CONCURRENT_REQUESTS, scenario, i, batch,
                  times, errors, benchmarkResults, summary, stderr, err, exitCode >>
  /\ UNCHANGED << started, dispatched, timer >>

\* The connection closes before the response is complete: res emits 'aborted' and
\* 'close' but no 'end', req emits no 'error' (a response exists), and the socket
\* timer is cleared with the socket. No listener of makeRequest runs.
ResponseCutOff(k) ==
  /\ requests[k].req = "responding"
  /\ requests' = [requests EXCEPT ![k].req = "closed"]
  /\ UNCHANGED << pc, server, BENCHMARK_REQUESTS, CONCURRENT_REQUESTS, scenario, i, batch,
                  times, errors, benchmarkResults, summary, stderr, err, exitCode >>
  /\ UNCHANGED << started, dispatched, timer >>

\* res.on('end'): resolve({ time, statusCode })
ResponseEnd(k) ==
  /\ requests[k].req \in {"open", "responding"}
  /\ \E t \in Latencies :
       /\ requests' = [requests EXCEPT ![k] = [Resolve(@) EXCEPT !.req = "closed"]]
       /\ Settle(k, "fulfilled", t)
  /\ UNCHANGED << pc, server, BENCHMARK_REQUESTS, CONCURRENT_REQUESTS, scenario, i, batch,
                  benchmarkResults, summary, stderr, err, exitCode >>
  /\ UNCHANGED << started, dispatched, timer >>

\* req.on('error'): reject(err)
RequestError(k) ==
  /\ requests[k].req \in {"open", "responding"}
  /\ requests' = [requests EXCEPT ![k] = [Reject(@) EXCEPT !.req = "closed"]]
  /\ Settle(k, "rejected", 0)
  /\ UNCHANGED << pc, server, BENCHMARK_REQUESTS, CONCURRENT_REQUESTS, scenario, i, batch,
                  benchmarkResults, summary, stderr, err, exitCode >>
  /\ UNCHANGED << started, dispatched, timer >>

\* Mutant of TimeoutHandler: the request destroyed without reject(...).
TimeoutNoReject(r) ==
  [r EXCEPT !.req = IF r.req = "open" THEN "destroyed" ELSE "closed"]

\* Mutant of TimeoutHandler: reject(...) without req.destroy(), the request left
\* in flight.
TimeoutNoDestroy(r) == Reject(r)

\* The timeout callback: req.destroy(); reject(new Error('Request timeout')).
\* A request destroyed before any response emits 'error' ("socket hang up")
\* later; one destroyed during its response emits none.
TimeoutHandler(r) ==
  [Reject(r) EXCEPT !.req = IF r.req = "open" THEN "destroyed" ELSE "closed"]

\* req.setTimeout(5000, ...): the socket was idle for 5000 ms, before or during
\* the response.
RequestTimeout(k) ==
  /\ requests[k].req \in {"open", "responding"}
  /\ requests' = [requests EXCEPT ![k] = TimeoutHandler(@)]
  /\ Settle(k, "rejected", 0)
  /\ UNCHANGED << pc, server, BENCHMARK_REQUESTS, CONCURRENT_REQUESTS, scenario, i, batch,
                  benchmarkResults, summary, stderr, err, exitCode >>
  /\ UNCHANGED << started, dispatched, timer >>

\* The 'error' event ("socket hang up") of a request destroyed by its timeout
\* handler: reject(err) on a promise that is already rejected.
ErrorAfterDestroy(k) ==
  /\ requests[k].req = "destroyed"
  /\ requests' = [requests EXCEPT ![k] = [Reject(@) EXCEPT !.req = "aborted"]]
  /\ Settle(k, "rejected", 0)
  /\ UNCHANGED << pc, server, BENCHMARK_REQUESTS, CONCURRENT_REQUESTS, scenario, i, batch,
                  benchmarkResults, summary, stderr, err, exitCode >>
  /\ UNCHANGED << started, dispatched, timer >>

RequestEvent ==
  \E k \in DOMAIN requests :
    \/ ResponseStart(k)
    \/ ResponseCutOff(k)
    \/ ResponseEnd(k)
    \/ RequestError(k)
    \/ RequestTimeout(k)
    \/ ErrorAfterDestroy(k)

Next == Listen \/ ReadPort \/ WarmupDispatch \/ WarmupResume \/ WarmupDone
          \/ BatchDispatch \/ BatchResume \/ BatchesDone \/ Statistics
          \/ NextRoute \/ PrintSummary \/ CatchError \/ Finally
          \/ UnhandledServerError \/ NormalExit \/ RequestEvent

Spec == Init /\ [][Next]_vars

\* The same program for every count >= 0.
InitConfig == InitCommon /\ BENCHMARK_REQUESTS \in 0..MaxCount

SpecConfig == InitConfig /\ [][Next]_vars

\* ------------------------------------------------- statistics on given samples
Reverse(s) == [k \in 1..Len(s) |-> s[Len(s) + 1 - k]]

SmallSamples == UNION { [1..n -> 1..3] : n \in 0..3 }

\* Sample sequences as benchmarkRoute holds them when its batches are done.
StatInputs == SmallSamples \cup { Reverse([k \in 1..n |-> k]) : n \in 1..MaxSamples }

InitStats ==
  /\ pc = "stats"
  /\ server = "listening"
  /\ times \in StatInputs
  /\ errors = 0
  /\ BENCHMARK_REQUESTS = Len(times)
  /\ CONCURRENT_REQUESTS = MaxLimit
  /\ scenario = 1
  /\ i = WARMUP_REQUESTS
  /\ batch = Batches(Len(times), MaxLimit)
  /\ requests = << >>
  /\ benchmarkResults = << >>
  /\ summary = << >>
  /\ stderr = << >>
  /\ err = "none"
  /\ exitCode = -1
  /\ started = << Scenarios[1].name >>
  /\ dispatched = WARMUP_REQUESTS + Len(times)
  /\ timer = "stopped"

NextStats == Statistics

SpecStats == InitStats /\ [][NextStats]_vars

\* ================================================================== claims
Pending == { k \in DOMAIN requests : requests[k].promise = "pending" }
Settled(S) == { k \in S : requests[k].promise # "pending" }
InRoute == pc \in {"warmup", "warmup_await", "batch", "batch_await", "stats"}
Measuring == pc \in {"batch", "batch_await", "stats"}
Completed == pc \in {"resolved", "rejected", "exited"}

\* C1: per-request failures never abort the run: whatever the outcomes of its
\* requests, no benchmarkRoute call raises a fault, and once the try block is
\* left every scenario has been run and has a result.
C1_PerRequestFailuresNeverAbort ==
  /\ err # "scenario"
  /\ (pc \in {"finally", "resolved", "exited"} /\ err # "port")
       => Len(benchmarkResults) = Len(Scenarios)

\* C2: the process exits with status 1 whenever the server failed to start or a
\* fault escaped a scenario run, and with status 0 only when no such error occurred.
C2_ExitStatusSignalsFault ==
  exitCode # -1 => (exitCode = 1 <=> err # "none")

\* C3: whenever app.listen was called, server.close() has been executed by the
\* time runBenchmarks completes, on every exit path.
C3_ServerClosedOnEveryPath ==
  (Completed /\ server # "none") => server = "closed"

\* C4: accounting: throughout the measurement phase samples plus errors equals
\* the number of measurement requests settled so far, and equals the requested
\* count when the statistics are computed.
C4_Accounting ==
  /\ Measuring => Len(times) + errors = Cardinality(Settled(Bench))
  /\ pc = "stats" => Len(times) + errors = BENCHMARK_REQUESTS

\* C4 witness: statistics about to be computed on a run of 3 requests in batches
\* of 2 that has both samples and errors.
C4_Witness ==
  /\ pc = "stats"
  /\ BENCHMARK_REQUESTS = 3
  /\ CONCURRENT_REQUESTS = 2
  /\ Len(times) = 2
  /\ errors = 1

\* C5: batch barrier: a request of a later batch is dispatched only when every
\* request of each earlier batch has settled, under every interleaving of events.
C5_BatchBarrier ==
  \A j \in Bench, k \in Bench :
    requests[j].batch < requests[k].batch => requests[j].promise # "pending"

\* C5 witness: the second batch is in flight after a first batch in which one
\* request failed and the other succeeded.
C5_Witness ==
  /\ pc = "batch_await"
  /\ batch = 1
  /\ \E j \in Bench : requests[j].batch = 0 /\ requests[j].promise = "rejected"
  /\ \E j \in Bench : requests[j].batch = 0 /\ requests[j].promise = "fulfilled"
  /\ \E k \in Bench : requests[k].batch = 1 /\ requests[k].promise = "pending"

\* C6: concurrency bound: the requests dispatched and not yet settled never
\* outnumber CONCURRENT_REQUESTS.
C6_ConcurrencyBound == Cardinality(Pending) <= CONCURRENT_REQUESTS

\* C6 witness: a count that is no multiple of the limit, the limit reached in the
\* first batch, with one request of that batch since ended by its timeout while
\* the other is still in flight.
C6_Witness ==
  /\ BENCHMARK_REQUESTS = 3
  /\ CONCURRENT_REQUESTS = 2
  /\ pc = "batch_await"
  /\ batch = 0
  /\ Cardinality(Bench) = 2
  /\ \E j \in Bench : requests[j].req = "destroyed"
  /\ Cardinality(Pending) = 1

\* C7: warmup is sequential and precedes measurement: at most one warmup request
\* is in flight, a warmup request is dispatched only after all earlier ones
\* settled, warmup and measurement requests never coexist, and the measurement
\* phase is entered only when WARMUP_REQUESTS warmup requests have settled.
C7_WarmupOneAtATime ==
  /\ Cardinality(Pending \cap Warm) <= 1
  /\ \A j \in Warm, k \in Warm : j < k => requests[j].promise # "pending"
  /\ Warm # {} => (Bench = {} /\ pc \in {"warmup", "warmup_await"})
  /\ pc \in {"warmup", "warmup_await"} => Bench = {}

C7_MeasurementAfterWarmup ==
  (pc \in {"warmup", "warmup_await"} /\ pc' = "batch")
    => /\ Cardinality(Warm) = WARMUP_REQUESTS
       /\ Settled(Warm) = Warm

C7_WarmupSequential ==
  [](C7_WarmupOneAtATime) /\ [][C7_MeasurementAfterWarmup]_vars

\* C7 witness: the second warmup request is in flight after the first one failed.
C7_Witness ==
  /\ pc = "warmup_await"
  /\ Len(requests) = 2
  /\ requests[1].promise = "rejected"
  /\ requests[2].promise = "pending"

\* C8: batch partition: when the measurement phase is over it has run exactly
\* ceil(count / limit) batches, each of at least 1 and at most limit requests,
\* all but possibly the last of exactly limit requests, count requests in all.
C8_BatchPartition ==
  pc = "stats" =>
    LET c == BENCHMARK_REQUESTS
        limit == CONCURRENT_REQUESTS
        ran == { requests[k].batch : k \in Bench }
        size(b) == Cardinality({ k \in Bench : requests[k].batch = b })
    IN /\ ran = 0..(batch - 1)
       /\ batch * limit >= c
       /\ (batch - 1) * limit < c
       /\ \A b \in ran : size(b) >= 1 /\ size(b) <= limit
       /\ \A b \in ran : b < batch - 1 => size(b) = limit
       /\ Cardinality(Bench) = c

\* C8 witness: 3 requests in batches of 2 ran as 2 batches, the last one partial.
C8_Witness ==
  /\ pc = "stats"
  /\ BENCHMARK_REQUESTS = 3
  /\ CONCURRENT_REQUESTS = 2
  /\ batch = 2
  /\ Cardinality({ k \in Bench : requests[k].batch = 1 }) = 1

\* C9: percentile by nearest-rank index: on n >= 1 samples sorted ascending, each
\* of p50, p95, p99 is the element at index floor(n * p) clamped to [0, n - 1],
\* the index is in range without the clamp and the value is one of the samples;
\* samples 1..100 give p50 = 51 and p99 = 100, and 5 samples give p99 = max.
C9_Percentile ==
  pc = "pushed" =>
    LET n == Len(times)
        lat == benchmarkResults[Len(benchmarkResults)].latency
        floorIdx(pct) == (n * pct) \div 100
        clamp(x) == IF x < 0 THEN 0 ELSE IF x > n - 1 THEN n - 1 ELSE x
        samples == { times[k] : k \in 1..n }
    IN /\ n >= 1
       /\ \A k \in 1..(n - 1) : times[k] <= times[k + 1]
       /\ \A pct \in {50, 95, 99} : floorIdx(pct) \in 0..(n - 1)
       /\ lat.p50 = times[clamp(floorIdx(50)) + 1]
       /\ lat.p95 = times[clamp(floorIdx(95)) + 1]
       /\ lat.p99 = times[clamp(floorIdx(99)) + 1]
       /\ {lat.p50, lat.p95, lat.p99} \subseteq samples
       /\ times = [k \in 1..100 |-> k] => (lat.p50 = 51 /\ lat.p99 = 100)
       /\ n = 5 => (lat.p99 = lat.max /\ \A v \in samples : v <= lat.p99)

\* C9 witness: the statistics of the samples 1..100.
C9_Witness ==
  /\ pc = "pushed"
  /\ times = [k \in 1..100 |-> k]
  /\ benchmarkResults[1].latency.p50 = 51
  /\ benchmarkResults[1].latency.p95 = 96
  /\ benchmarkResults[1].latency.p99 = 100

\* Number of benchmarkRoute calls that have returned a result.
ScenariosCompleted ==
  IF scenario = 0 THEN 0
  ELSE IF InRoute \/ err = "scenario" THEN scenario - 1
  ELSE scenario

\* C10: report ordering: benchmarkResults is a prefix of the registered scenario
\* list, in registration order, with one result per completed scenario, and the
\* summary table, once printed, lists the scenarios in that order.
C10_ReportOrdering ==
  /\ Len(benchmarkResults) <= Len(Scenarios)
  /\ \A k \in DOMAIN benchmarkResults : benchmarkResults[k].name = Scenarios[k].name
  /\ Len(benchmarkResults) = ScenariosCompleted
  /\ summary # << >> => summary = [k \in DOMAIN Scenarios |-> Scenarios[k].name]

\* C10 witness: the summary is printed in registration order although every
\* request of the last scenario was faster than every request of the first.
C10_Witness ==
  /\ summary # << >>
  /\ Len(benchmarkResults) = Len(Scenarios)
  /\ benchmarkResults[1].latency.min = 2
  /\ benchmarkResults[Len(benchmarkResults)].latency.max = 1

\* C11: no partial report on top-level failure: once a fault has escaped a
\* scenario run, no scenario is started, no request is dispatched and the summary
\* table stays unprinted, also for the scenarios whose results were collected.
C11_AfterFault ==
  err = "scenario" =>
    /\ summary = << >>
    /\ pc \in {"catch", "finally", "resolved", "exited"}
    /\ Pending = {}

C11_NothingAfterFault ==
  err = "scenario" =>
    /\ started' = started
    /\ dispatched' = dispatched
    /\ summary' = << >>
    /\ benchmarkResults' = benchmarkResults

C11_NoPartialReport == [](C11_AfterFault) /\ [][C11_NothingAfterFault]_vars

\* C11 witness: the run has ended on a fault of the second scenario with the
\* result of the first one collected and no summary printed.
C11_Witness ==
  /\ err = "scenario"
  /\ pc = "exited"
  /\ scenario = 2
  /\ Len(benchmarkResults) = 1
  /\ summary = << >>

\* C12: timeout isolation: the turn in which the timeout of an in-flight
\* measurement request fires aborts that request, settles it as rejected, adds
\* exactly one error and no sample, and leaves every other request as it was, in
\* flight with all its outcomes still open.
C12_TimeoutStep ==
  \A k \in DOMAIN requests :
    (/\ DOMAIN requests' = DOMAIN requests
     /\ requests[k].phase = "bench"
     /\ requests[k].req = "open"
     /\ requests'[k].req = "destroyed")
    => /\ requests'[k].promise = "rejected"
       /\ errors' = errors + 1
       /\ times' = times
       /\ \A j \in DOMAIN requests : j # k => requests'[j] = requests[j]

C12_TimeoutIsolation == [][C12_TimeoutStep]_vars

\* C12 witness: in a batch of two, one request was ended by its timeout and counted
\* as the only error while its sibling is still in flight, its response begun.
C12_Witness ==
  /\ pc = "batch_await"
  /\ CONCURRENT_REQUESTS = 2
  /\ Len(requests) = 2
  /\ requests[1].req = "destroyed"
  /\ requests[1].promise = "rejected"
  /\ requests[2].req = "responding"
  /\ requests[2].promise = "pending"
  /\ errors = 1
  /\ times = << >>

\* C13: after an uncaught error during scenario execution, the server is already
\* stopped (server.close() called) when the error is on the diagnostic channel.
C13_ClosedBeforeSurfaced ==
  (err = "scenario" /\ stderr # << >>) => server = "closed"

InFlight == { k \in DOMAIN requests : requests[k].req \in {"open", "responding"} }
Fulfilled(S) == { k \in S : requests[k].promise = "fulfilled" }
Rejected(S) == { k \in S : requests[k].promise = "rejected" }

\* C14: exactly one outcome per dispatched request: whatever events a
\* measurement request receives and in whatever order, its promise settles at
\* most once and never changes afterwards, the turn that settles it adds exactly
\* one sample or exactly one error, and no other event of it adds anything.
C14_OnePerOutcome ==
  Measuring => /\ Len(times) = Cardinality(Fulfilled(Bench))
               /\ errors = Cardinality(Rejected(Bench))

C14_EventStep ==
  \A k \in DOMAIN requests :
    (/\ DOMAIN requests' = DOMAIN requests
     /\ requests[k].phase = "bench"
     /\ requests'[k] # requests[k])
    => LET before == requests[k].promise
           after == requests'[k].promise
       IN /\ before # "pending" => after = before
          /\ (before = "pending" /\ after = "fulfilled")
               => (Len(times') = Len(times) + 1 /\ errors' = errors)
          /\ (before = "pending" /\ after = "rejected")
               => (times' = times /\ errors' = errors + 1)
          /\ after = before => (times' = times /\ errors' = errors)

C14_ExactlyOneOutcome == [](C14_OnePerOutcome) /\ [][C14_EventStep]_vars

\* C14 witness: the only request of the measurement phase was ended by its
\* timeout, and the error event that follows the abort has been delivered as
\* well: one error is counted.
C14_Witness ==
  /\ pc = "batch_await"
  /\ Len(requests) = 1
  /\ requests[1].phase = "bench"
  /\ requests[1].req = "aborted"
  /\ requests[1].promise = "rejected"
  /\ errors = 1
  /\ times = << >>

\* C15: termination: no request outcome leaves the run waiting forever; until
\* the process has exited, some step is always possible.
C15_NeverStuck == pc = "exited" \/ ENABLED Next

\* C16: warmup outcomes are discarded: through the warmup phase and up to the
\* dispatch of the first measurement request the sample list is empty and the
\* error counter is zero, and a settled warmup request, failed or not, is followed
\* by the next step of the warmup loop.
C16_NothingRecorded ==
  (pc \in {"warmup", "warmup_await"} \/ (pc = "batch" /\ batch = 0))
    => (times = << >> /\ errors = 0 /\ err = "none")

C16_LoopGoesOn ==
  (pc = "warmup_await" /\ pc' # pc) => (pc' = "warmup" /\ i' = i + 1)

C16_WarmupDiscarded == [](C16_NothingRecorded) /\ [][C16_LoopGoesOn]_vars

\* C16 witness: the warmup loop has finished after one failed and one successful
\* warmup request, with nothing recorded.
C16_Witness ==
  /\ pc = "warmup"
  /\ i = WARMUP_REQUESTS
  /\ Len(requests) = 2
  /\ requests[1].promise = "rejected"
  /\ requests[2].promise = "fulfilled"
  /\ times = << >>
  /\ errors = 0

\* C17: no retries: the scenarios started so far are the first ones of the
\* registered list, each started once; the requests dispatched by a call are one
\* per warmup iteration and one per measurement request, so a call that reaches
\* its statistics has dispatched exactly WARMUP_REQUESTS + count of them.
C17_NoRetries ==
  /\ started = [k \in 1..scenario |-> Scenarios[k].name]
  /\ \A j \in DOMAIN started, k \in DOMAIN started : started[j] = started[k] => j = k
  /\ pc = "warmup" => dispatched = i
  /\ pc = "warmup_await" => dispatched = i + 1
  /\ Measuring => dispatched = WARMUP_REQUESTS + Cardinality(Bench)
  /\ pc \in {"stats", "pushed"} => dispatched = WARMUP_REQUESTS + BENCHMARK_REQUESTS

\* C17 witness: the second scenario has returned its result after 2 of its 3
\* measurement requests failed, having dispatched 2 + 3 requests.
C17_Witness ==
  /\ pc = "pushed"
  /\ scenario = 2
  /\ BENCHMARK_REQUESTS = 3
  /\ errors = 2
  /\ dispatched = 5
  /\ Len(started) = 2

\* C18: scenarios never overlap: when the next scenario is started, no request
\* of the previous one is in flight or unsettled, those ended by a timeout
\* included.
C18_ScenarioStep ==
  (scenario' # scenario) => (InFlight = {} /\ Pending = {})

C18_NoOverlap == [][C18_ScenarioStep]_vars

\* C18 witness: the first scenario has returned and the next one is about to
\* start, while a request of the first one, ended by its timeout, has not yet
\* emitted its error event.
C18_Witness ==
  /\ pc = "pushed"
  /\ scenario = 1
  /\ scenario < Len(Scenarios)
  /\ \E k \in DOMAIN requests : requests[k].req = "destroyed"

\* C19: elapsed-time window: per call the start timestamp is taken once, when
\* all warmup requests have settled and no measurement request is dispatched,
\* and the end timestamp once, when all count measurement requests have settled;
\* warmup requests are dispatched and settle before the window, measurement
\* requests inside it.
C19_Window ==
  /\ pc \in {"warmup", "warmup_await"} => timer = "unset"
  /\ pc \in {"batch", "batch_await"} => timer = "started"
  /\ pc \in {"stats", "pushed"} => timer = "stopped"
  /\ Pending \cap Bench # {} => timer = "started"
  /\ timer = "stopped" => Pending = {}

C19_TimerStep ==
  timer' # timer =>
    \/ /\ timer = "unset" /\ timer' = "started"
       /\ Cardinality(Warm) = WARMUP_REQUESTS
       /\ Settled(Warm) = Warm
       /\ Bench = {}
    \/ /\ timer = "started" /\ timer' = "stopped"
       /\ Cardinality(Bench) = BENCHMARK_REQUESTS
       /\ Settled(Bench) = Bench
    \/ /\ timer' = "unset"
       /\ scenario' = scenario + 1

C19_ElapsedWindow == [](C19_Window) /\ [][C19_TimerStep]_vars

\* C19 witness: the end timestamp is taken after two batches, 3 measurement
\* requests having settled inside the window.
C19_Witness ==
  /\ pc = "stats"
  /\ timer = "stopped"
  /\ BENCHMARK_REQUESTS = 3
  /\ batch = 2
  /\ Cardinality(Settled(Bench)) = 3
====
